---- MODULE Spec2Model ----
(***************************************************************************)
(* The connection-event subscriber of provider/event/disabled.rs: one      *)
(* AckContext of five AtomicU64 fields per connection, updated by the      *)
(* Subscriber hooks with relaxed atomic read-modify-write operations and   *)
(* printed to stdout by on_connection_closed.                              *)
(*                                                                         *)
(* Hooks are run by threads.  A hook invocation is three steps: the        *)
(* dispatcher's call, the hook body (one atomic operation; for             *)
(* on_connection_closed the two steps of println!) and the return.         *)
(* The dispatcher (the protocol engine) is not part of the source files;   *)
(* its calling contract is taken from the specification text.              *)
(***************************************************************************)
EXTENDS Integers, FiniteSets, Sequences, TLC

\* ------------------------------------------------------------------ bounds

\* Event hooks (frame, loss, metrics) the dispatcher issues in one behaviour.
MaxCalls == 3

\* Width of the model's unsigned word standing for u64.  All arithmetic on
\* AtomicU64 values is modulo 2^WordBits.  MaxCalls stays below 2^WordBits,
\* as a counter that starts at 0 reaches 2^64 only after 2^64 events; a
\* single event, however, may carry a duration of 2^64 ms or more.
WordBits == 4

Modulus == 2 ^ WordBits

Threads == {1, 2}

Conns == {1, 2}

\* --------------------------------------------------------------- data types

\* core::time::Duration: whole seconds and a sub-second part in nanoseconds.
Duration(secs, nanos) == [secs |-> secs, nanos |-> nanos]

\* A duration whose millisecond count does not fit the unsigned word
\* (for u64: any duration of 2^64 ms or more, e.g.
\* Duration::new(18_446_744_073_709_551, 621_000_000) = 2^64 + 5 ms).
WideDuration == Duration(0, (Modulus + 5) * 1000000)

\* The RTT-variance samples events carry: 0 ms, 9.999999 ms, 15 ms and a
\* duration wider than the word.
Durations ==
    { Duration(0, 0), Duration(0, 9999999), Duration(0, 15000000), WideDuration }

\* s2n_quic_core::event::api::Frame, by kind.
Frames == {"Ack", "Ping"}

\* Event payloads: FrameSent/FrameReceived {frame}, PacketLost {is_mtu_probe},
\* RecoveryMetrics {rtt_variance}; a hook reads only the field of its event.
NoEvent == [frame |-> "Ping", is_mtu_probe |-> FALSE, rtt_variance |-> Duration(0, 0)]

FrameEvents == { [NoEvent EXCEPT !.frame = f] : f \in Frames }

PacketLostEvents == { [NoEvent EXCEPT !.is_mtu_probe = b] : b \in BOOLEAN }

RecoveryMetricsEvents == { [NoEvent EXCEPT !.rtt_variance = d] : d \in Durations }

\* #[derive(Default)] struct AckContext: every AtomicU64 starts at 0.
AckContext ==
    [ack_tx |-> 0, ack_rx |-> 0, packet_lost |-> 0, mtu_packet_lost |-> 0,
     max_rtt_variance |-> 0]

\* ------------------------------------------------------- atomic operations

\* A plain store of the operand where the addition should be.
fetch_add_as_store(cur, val) == val % Modulus

\* A subtraction where the addition should be.
fetch_add_as_sub(cur, val) == (cur - val) % Modulus

\* AtomicU64::fetch_add(val, Relaxed): the new value of the cell (wrapping).
fetch_add(cur, val) == (cur + val) % Modulus

\* AtomicU64::fetch_max(val, Relaxed): the new value of the cell.
fetch_max(cur, val) == IF val > cur THEN val ELSE cur

\* Duration::as_millis(): the whole milliseconds, as u128.
as_millis(d) == d.secs * 1000 + d.nanos \div 1000000

\* `as u64` on a u128: keeps the low bits.
as_u64(x) == x % Modulus

\* ------------------------------------------------------------------- state

VARIABLES
    ctx,          \* the contexts created so far: connection -> AckContext
    status,       \* dispatcher: connection -> Unborn | Active | Closing | Closed
    pc,           \* thread -> idle | <hook> | println_locked | return | panicked
    conn,         \* thread -> the connection of its current hook (0: none)
    hook,         \* thread -> the hook it is in (for the return)
    event,        \* thread -> the event payload of its current hook
    stdout_lock,  \* the thread holding the stdout lock (0: free)
    printed,      \* connection -> the context values println! wrote
    hist,         \* connection -> history of the calls issued and completed
    ncalls,       \* event hooks issued so far
    start_result  \* what Provider::start returned (NotCalled before the call)

\* The state of the target loader (target.rs), which the subscriber leaves alone.
VARIABLES
    fs,           \* the file system: path -> content of the file there
    origin,       \* cache file -> the URL whose response was written to it
    loaded,       \* the last call of load: target, outcome, text, fetched
    first_ok      \* target -> the text its first successful load returned

tvars == <<fs, origin, loaded, first_ok>>

svars == <<ctx, status, pc, conn, hook, event, stdout_lock, printed, hist, ncalls,
           start_result>>

vars == <<svars, tvars>>

NoHistory ==
    [sent_ack |-> 0, recv_ack |-> 0, lost |-> 0, probe_lost |-> 0,
     max_called |-> 0, max_done |-> 0, closes |-> 0, created |-> 0]

\* No load called yet.
NotLoaded ==
    [target |-> [kind |-> "None"], outcome |-> "None", error |-> "none",
     text |-> << >>, fetched |-> FALSE,
     again |-> FALSE]

\* The target loader before its first call, with an empty file system.
TargetIdle ==
    /\ fs = << >>
    /\ origin = << >>
    /\ loaded = NotLoaded
    /\ first_ok = << >>

\* The subscriber side before Provider::start.
SubscriberInit ==
    /\ ctx = << >>
    /\ status = [c \in Conns |-> "Unborn"]
    /\ pc = [t \in Threads |-> "idle"]
    /\ conn = [t \in Threads |-> 0]
    /\ hook = [t \in Threads |-> "none"]
    /\ event = [t \in Threads |-> NoEvent]
    /\ stdout_lock = 0
    /\ printed = << >>
    /\ hist = [c \in Conns |-> NoHistory]
    /\ ncalls = 0
    /\ start_result = "NotCalled"

Init == SubscriberInit /\ TargetIdle

Max(a, b) == IF a > b THEN a ELSE b

\* The threads inside a hook (called, not yet returned or unwound) on c.
InHook(c) == { t \in Threads : pc[t] \notin {"idle", "panicked"} /\ conn[t] = c }

\* Thread t's hook body is done: hand control back to the caller.
Returning(t) == [pc EXCEPT ![t] = "return"]

\* ------------------------------------------------------------------ Provider

\* A start that reports an initialization failure.
start_unavailable == "Err"

\* Provider::start: Ok(Subscriber); the error type is Infallible.
start == "Ok"

\* The provider is started, once (start takes self by value).
ProviderStart ==
    /\ start_result = "NotCalled"
    /\ start_result' = start
    /\ UNCHANGED <<ctx, status, pc, conn, hook, event, stdout_lock, printed, hist, ncalls>>
    /\ UNCHANGED tvars

\* ---------------------------------------------------- Subscriber (the hooks)

\* create_connection_context: Default::default().
create_connection_context == AckContext

\* on_frame_sent that counts every frame kind.
on_frame_sent_any_frame(t) ==
    /\ pc[t] = "on_frame_sent"
    /\ ctx' = [ctx EXCEPT ![conn[t]].ack_tx = fetch_add(@, 1)]
    /\ pc' = Returning(t)
    /\ UNCHANGED <<status, conn, hook, event, stdout_lock, printed, hist, ncalls>>
    /\ UNCHANGED <<start_result, tvars>>

\* on_frame_sent: an Ack frame adds one to ack_tx; any other frame does nothing.
on_frame_sent(t) ==
    /\ pc[t] = "on_frame_sent"
    /\ ctx' = IF event[t].frame = "Ack"
                THEN [ctx EXCEPT ![conn[t]].ack_tx = fetch_add(@, 1)]
                ELSE ctx
    /\ pc' = Returning(t)
    /\ UNCHANGED <<status, conn, hook, event, stdout_lock, printed, hist, ncalls>>
    /\ UNCHANGED <<start_result, tvars>>

\* on_frame_received that counts in state shared by all connections: the
\* Ack is added to the ack_rx of every context.
on_frame_received_shared(t) ==
    /\ pc[t] = "on_frame_received"
    /\ ctx' = IF event[t].frame = "Ack"
                THEN [c \in DOMAIN ctx |-> [ctx[c] EXCEPT !.ack_rx = fetch_add(@, 1)]]
                ELSE ctx
    /\ pc' = Returning(t)
    /\ UNCHANGED <<status, conn, hook, event, stdout_lock, printed, hist, ncalls>>
    /\ UNCHANGED <<start_result, tvars>>

\* on_frame_received copied from on_frame_sent with the field left as ack_tx.
on_frame_received_wrong_field(t) ==
    /\ pc[t] = "on_frame_received"
    /\ ctx' = IF event[t].frame = "Ack"
                THEN [ctx EXCEPT ![conn[t]].ack_tx = fetch_add(@, 1)]
                ELSE ctx
    /\ pc' = Returning(t)
    /\ UNCHANGED <<status, conn, hook, event, stdout_lock, printed, hist, ncalls>>
    /\ UNCHANGED <<start_result, tvars>>

\* on_frame_received: an Ack frame adds one to ack_rx.
on_frame_received(t) ==
    /\ pc[t] = "on_frame_received"
    /\ ctx' = IF event[t].frame = "Ack"
                THEN [ctx EXCEPT ![conn[t]].ack_rx = fetch_add(@, 1)]
                ELSE ctx
    /\ pc' = Returning(t)
    /\ UNCHANGED <<status, conn, hook, event, stdout_lock, printed, hist, ncalls>>
    /\ UNCHANGED <<start_result, tvars>>

\* on_packet_lost with the test of is_mtu_probe inverted.
on_packet_lost_inverted(t) ==
    /\ pc[t] = "on_packet_lost"
    /\ ctx' = IF event[t].is_mtu_probe
                THEN [ctx EXCEPT ![conn[t]].packet_lost = fetch_add(@, 1)]
                ELSE [ctx EXCEPT ![conn[t]].mtu_packet_lost = fetch_add(@, 1)]
    /\ pc' = Returning(t)
    /\ UNCHANGED <<status, conn, hook, event, stdout_lock, printed, hist, ncalls>>
    /\ UNCHANGED <<start_result, tvars>>

\* on_packet_lost: one is added to packet_lost when the packet was no MTU
\* probe, to mtu_packet_lost when it was.
on_packet_lost(t) ==
    /\ pc[t] = "on_packet_lost"
    /\ ctx' = IF ~event[t].is_mtu_probe
                THEN [ctx EXCEPT ![conn[t]].packet_lost = fetch_add(@, 1)]
                ELSE [ctx EXCEPT ![conn[t]].mtu_packet_lost = fetch_add(@, 1)]
    /\ pc' = Returning(t)
    /\ UNCHANGED <<status, conn, hook, event, stdout_lock, printed, hist, ncalls>>
    /\ UNCHANGED <<start_result, tvars>>

\* on_recovery_metrics: fetch_max of the sample's milliseconds, cast to u64.
on_recovery_metrics(t) ==
    /\ pc[t] = "on_recovery_metrics"
    /\ ctx' = [ctx EXCEPT ![conn[t]].max_rtt_variance =
                   fetch_max(@, as_u64(as_millis(event[t].rtt_variance)))]
    /\ pc' = Returning(t)
    /\ UNCHANGED <<status, conn, hook, event, stdout_lock, printed, hist, ncalls>>
    /\ UNCHANGED <<start_result, tvars>>

\* on_connection_closed, first step of println!: take the stdout lock,
\* waiting while another thread holds it.
on_connection_closed(t) ==
    /\ pc[t] = "on_connection_closed"
    /\ stdout_lock = 0
    /\ stdout_lock' = t
    /\ pc' = [pc EXCEPT ![t] = "println_locked"]
    /\ UNCHANGED <<ctx, status, conn, hook, event, printed, hist, ncalls>>
    /\ UNCHANGED <<start_result, tvars>>

\* A println_write that takes the values out of the context (swap with 0)
\* as it prints them.
println_write_draining(t) ==
    /\ pc[t] = "println_locked"
    /\ stdout_lock' = 0
    /\ \/ /\ printed' = (conn[t] :> ctx[conn[t]]) @@ printed
          /\ ctx' = [ctx EXCEPT ![conn[t]] = AckContext]
          /\ pc' = Returning(t)
       \/ /\ pc' = [pc EXCEPT ![t] = "panicked"]
          /\ UNCHANGED <<printed, ctx>>
    /\ UNCHANGED <<status, conn, hook, event, hist, ncalls>>
    /\ UNCHANGED <<start_result, tvars>>

\* on_connection_closed, second step of println!: format the context with
\* {:?} (a load of each field) and write the line.  The write succeeds, or
\* it fails and println! panics; the lock guard is dropped either way.
println_write(t) ==
    /\ pc[t] = "println_locked"
    /\ stdout_lock' = 0
    /\ \/ /\ printed' = (conn[t] :> ctx[conn[t]]) @@ printed
          /\ pc' = Returning(t)
       \/ /\ pc' = [pc EXCEPT ![t] = "panicked"]
          /\ UNCHANGED printed
    /\ UNCHANGED <<ctx, status, conn, hook, event, hist, ncalls>>
    /\ UNCHANGED <<start_result, tvars>>

\* One step of thread t inside a hook body.
HookStep(t) ==
    \/ on_frame_sent(t)
    \/ on_frame_received(t)
    \/ on_packet_lost(t)
    \/ on_recovery_metrics(t)
    \/ on_connection_closed(t)
    \/ println_write(t)

\* ------------------------------------------------------------- Dispatcher

\* A dispatcher that also delivers events to a connection being closed.
MayDispatch_after_close(t, c) ==
    /\ pc[t] = "idle"
    /\ status[c] \in {"Active", "Closing", "Closed"}

\* May thread t start a hook other than creation and closure on c: the thread
\* is free and the connection is Active (created, closure not yet called).
MayDispatch(t, c) ==
    /\ pc[t] = "idle"
    /\ status[c] = "Active"

\* May thread t call the closure hook of c: c is Active and every other hook
\* called for c has returned.
MayClose(t, c) ==
    /\ pc[t] = "idle"
    /\ status[c] = "Active"
    /\ InHook(c) = {}

\* Thread t enters hook h of connection c with payload e.
Enter(t, c, h, e) ==
    /\ pc' = [pc EXCEPT ![t] = h]
    /\ conn' = [conn EXCEPT ![t] = c]
    /\ hook' = [hook EXCEPT ![t] = h]
    /\ event' = [event EXCEPT ![t] = e]

\* Connection start: the context is created, once, before any other hook.
DispatchCreate(t, c) ==
    /\ start_result = "Ok"
    /\ pc[t] = "idle"
    /\ status[c] = "Unborn"
    /\ ctx' = (c :> create_connection_context) @@ ctx
    /\ status' = [status EXCEPT ![c] = "Active"]
    /\ hist' = [hist EXCEPT ![c].created = @ + 1]
    /\ UNCHANGED <<pc, conn, hook, event, stdout_lock, printed, ncalls>>
    /\ UNCHANGED <<start_result, tvars>>

DispatchFrameSent(t, c, e) ==
    /\ MayDispatch(t, c)
    /\ ncalls < MaxCalls
    /\ Enter(t, c, "on_frame_sent", e)
    /\ hist' = [hist EXCEPT ![c].sent_ack = @ + (IF e.frame = "Ack" THEN 1 ELSE 0)]
    /\ ncalls' = ncalls + 1
    /\ UNCHANGED <<ctx, status, stdout_lock, printed>>
    /\ UNCHANGED <<start_result, tvars>>

DispatchFrameReceived(t, c, e) ==
    /\ MayDispatch(t, c)
    /\ ncalls < MaxCalls
    /\ Enter(t, c, "on_frame_received", e)
    /\ hist' = [hist EXCEPT ![c].recv_ack = @ + (IF e.frame = "Ack" THEN 1 ELSE 0)]
    /\ ncalls' = ncalls + 1
    /\ UNCHANGED <<ctx, status, stdout_lock, printed>>
    /\ UNCHANGED <<start_result, tvars>>

DispatchPacketLost(t, c, e) ==
    /\ MayDispatch(t, c)
    /\ ncalls < MaxCalls
    /\ Enter(t, c, "on_packet_lost", e)
    /\ hist' = IF e.is_mtu_probe
                 THEN [hist EXCEPT ![c].probe_lost = @ + 1]
                 ELSE [hist EXCEPT ![c].lost = @ + 1]
    /\ ncalls' = ncalls + 1
    /\ UNCHANGED <<ctx, status, stdout_lock, printed>>
    /\ UNCHANGED <<start_result, tvars>>

DispatchRecoveryMetrics(t, c, e) ==
    /\ MayDispatch(t, c)
    /\ ncalls < MaxCalls
    /\ Enter(t, c, "on_recovery_metrics", e)
    /\ hist' = [hist EXCEPT ![c].max_called = Max(@, as_millis(e.rtt_variance))]
    /\ ncalls' = ncalls + 1
    /\ UNCHANGED <<ctx, status, stdout_lock, printed>>
    /\ UNCHANGED <<start_result, tvars>>

\* Connection end: the closure hook is called.
DispatchClose(t, c) ==
    /\ MayClose(t, c)
    /\ Enter(t, c, "on_connection_closed", NoEvent)
    /\ status' = [status EXCEPT ![c] = "Closing"]
    /\ hist' = [hist EXCEPT ![c].closes = @ + 1]
    /\ UNCHANGED <<ctx, stdout_lock, printed, ncalls>>
    /\ UNCHANGED <<start_result, tvars>>

\* The hook of thread t returns to the dispatcher.
Return(t) ==
    /\ pc[t] = "return"
    /\ pc' = [pc EXCEPT ![t] = "idle"]
    /\ conn' = [conn EXCEPT ![t] = 0]
    /\ hook' = [hook EXCEPT ![t] = "none"]
    /\ event' = [event EXCEPT ![t] = NoEvent]
    /\ status' = IF hook[t] = "on_connection_closed"
                   THEN [status EXCEPT ![conn[t]] = "Closed"]
                   ELSE status
    /\ hist' = IF hook[t] = "on_recovery_metrics"
                 THEN [hist EXCEPT ![conn[t]].max_done =
                           Max(@, as_millis(event[t].rtt_variance))]
                 ELSE hist
    /\ UNCHANGED <<ctx, stdout_lock, printed, ncalls>>
    /\ UNCHANGED <<start_result, tvars>>

\* ----------------------------------------------------------- specification

\* The steps of the dispatcher and of the hooks once the provider is started.
Running ==
    \/ \E t \in Threads, c \in Conns : DispatchCreate(t, c)
    \/ \E t \in Threads, c \in Conns, e \in FrameEvents : DispatchFrameSent(t, c, e)
    \/ \E t \in Threads, c \in Conns, e \in FrameEvents : DispatchFrameReceived(t, c, e)
    \/ \E t \in Threads, c \in Conns, e \in PacketLostEvents : DispatchPacketLost(t, c, e)
    \/ \E t \in Threads, c \in Conns, e \in RecoveryMetricsEvents :
           DispatchRecoveryMetrics(t, c, e)
    \/ \E t \in Threads, c \in Conns : DispatchClose(t, c)
    \/ \E t \in Threads : HookStep(t)
    \/ \E t \in Threads : Return(t)

Next ==
    \/ ProviderStart
    \/ Running

Spec == Init /\ [][Next]_vars

\* The values a counter is drawn from when a run starts in the middle of a
\* context's life: zero and the two largest values of the word.
CounterValues == {0, Modulus - 2, Modulus - 1}

\* A started provider and connection 1 Active, its four counters at a value
\* drawn from the whole range of the word (a context that has counted that
\* many events); connection 2 is still to be created.
InitWrap ==
    /\ \E v \in CounterValues :
           ctx = (1 :> [ack_tx |-> v, ack_rx |-> v, packet_lost |-> v,
                        mtu_packet_lost |-> v, max_rtt_variance |-> 0])
    /\ status = [c \in Conns |-> IF c = 1 THEN "Active" ELSE "Unborn"]
    /\ pc = [t \in Threads |-> "idle"]
    /\ conn = [t \in Threads |-> 0]
    /\ hook = [t \in Threads |-> "none"]
    /\ event = [t \in Threads |-> NoEvent]
    /\ stdout_lock = 0
    /\ printed = << >>
    /\ hist = [c \in Conns |-> IF c = 1 THEN [NoHistory EXCEPT !.created = 1]
                                         ELSE NoHistory]
    /\ ncalls = 0
    /\ start_result = "Ok"
    /\ TargetIdle

\* The hooks applied to counters anywhere in the range of the word.
SpecWrap == InitWrap /\ [][Running]_vars

\* Type invariant of the state.
TypeOK ==
    /\ DOMAIN ctx \subseteq Conns
    /\ \A c \in DOMAIN ctx :
           \A f \in DOMAIN AckContext : ctx[c][f] \in 0 .. Modulus - 1
    /\ status \in [Conns -> {"Unborn", "Active", "Closing", "Closed"}]
    /\ conn \in [Threads -> Conns \cup {0}]
    /\ stdout_lock \in Threads \cup {0}
    /\ DOMAIN printed \subseteq Conns
    /\ ncalls \in 0 .. MaxCalls
    /\ start_result \in {"NotCalled", "Ok", "Err"}

\* ------------------------------------------------------------------ claims

\* The threads called into hook h on c whose body has not run yet.
Pending(c, h) == { t \in Threads : pc[t] = h /\ conn[t] = c }

\* The threads whose body of hook h on c has run and which have not returned.
Finished(c, h) == { t \in Threads : pc[t] = "return" /\ hook[t] = h /\ conn[t] = c }

\* C1: once every on_frame_sent call carrying an Ack frame that was issued
\* for a connection, from any threads in any interleaving, has run to its
\* end, ack_tx equals the number of those calls: no increment is lost.
C1_NoLostAckSent ==
    \A c \in DOMAIN ctx :
        { t \in Pending(c, "on_frame_sent") : event[t].frame = "Ack" } = {}
            => ctx[c].ack_tx = hist[c].sent_ack

\* C1 witness: two threads were inside on_frame_sent(Ack) on the same
\* connection at once, both have run it, and ack_tx counts both.
C1_Witness ==
    \E c \in DOMAIN ctx :
        /\ Finished(c, "on_frame_sent") = Threads
        /\ \A t \in Threads : event[t].frame = "Ack"
        /\ hist[c].sent_ack = 3
        /\ ctx[c].ack_tx = 3

\* The hooks a dispatcher may start on a connection once it is created.
EventHooks ==
    {"on_frame_sent", "on_frame_received", "on_packet_lost", "on_recovery_metrics"}

\* C2 (state part): a thread is inside a hook only of a created connection;
\* the closure hook is called at most once, and while the connection is
\* Closing or Closed no other hook of it is in flight.
C2_LifecycleState ==
    /\ \A t \in Threads :
           pc[t] # "idle" => conn[t] \in DOMAIN ctx /\ hist[conn[t]].created = 1
    /\ \A c \in Conns :
           /\ hist[c].closes <= 1
           /\ hist[c].closes = 1 <=> status[c] \in {"Closing", "Closed"}
           /\ status[c] \in {"Closing", "Closed"}
                  => \A t \in InHook(c) : hook[t] = "on_connection_closed"
           /\ status[c] = "Closed" => InHook(c) = {}

\* C2 (step part): every hook starts on a connection that is Active, that is
\* created and not yet closed; the closure hook starts only when no other
\* hook of the connection is in flight.
C2_LifecycleStep ==
    \A t \in Threads :
        (pc[t] = "idle" /\ pc'[t] # "idle")
            => /\ status[conn'[t]] = "Active"
               /\ pc'[t] \in EventHooks \cup {"on_connection_closed"}
               /\ pc'[t] = "on_connection_closed" => InHook(conn'[t]) = {}

\* C2: per connection the hooks follow Created -> Active -> Closed: creation
\* precedes every other hook, the closure hook is called exactly once and
\* strictly after every other hook has completed, and no hook starts after it.
C2_Lifecycle == []C2_LifecycleState /\ [][C2_LifecycleStep]_vars

\* C2 witness: a connection that saw an event hook and was then closed.
C2_Witness ==
    \E c \in Conns :
        /\ status[c] = "Closed"
        /\ hist[c].closes = 1
        /\ hist[c].lost = 1

\* C3: with K on_packet_lost calls for MTU probes and M for other packets
\* run on a context, mtu_packet_lost = K and packet_lost = M: every call
\* adds one to exactly one of the two counters.
C3_LossCounters ==
    \A c \in DOMAIN ctx :
        /\ ctx[c].mtu_packet_lost =
               hist[c].probe_lost
                 - Cardinality({ t \in Pending(c, "on_packet_lost") :
                                     event[t].is_mtu_probe })
        /\ ctx[c].packet_lost =
               hist[c].lost
                 - Cardinality({ t \in Pending(c, "on_packet_lost") :
                                     ~event[t].is_mtu_probe })

\* C3 witness: two probe losses and one ordinary loss, all run.
C3_Witness ==
    \E c \in DOMAIN ctx :
        /\ Pending(c, "on_packet_lost") = {}
        /\ hist[c].probe_lost = 2
        /\ hist[c].lost = 1
        /\ ctx[c].mtu_packet_lost = 2
        /\ ctx[c].packet_lost = 1

\* C4: for any sequence of RTT-variance samples delivered through
\* on_recovery_metrics to a fresh context, the gauge after all calls equals
\* the largest sample in milliseconds, and a call whose sample is at most the
\* current gauge leaves the gauge unchanged.
C4_GaugeIsMaxSample ==
    /\ [](\A c \in DOMAIN ctx :
            Pending(c, "on_recovery_metrics") = {}
                => ctx[c].max_rtt_variance = hist[c].max_called)
    /\ [][\A t \in Threads :
            (/\ pc[t] = "on_recovery_metrics"
             /\ pc'[t] = "return"
             /\ as_millis(event[t].rtt_variance) <= ctx[conn[t]].max_rtt_variance)
                => ctx' = ctx]_vars

\* C5: under any interleaving of on_recovery_metrics callers the gauge never
\* decreases from one state to the next, is at least every sample whose call
\* has completed, and equals the largest of them when no call is in flight.
C5_GaugeMonotoneMax ==
    /\ [](\A c \in DOMAIN ctx :
            /\ ctx[c].max_rtt_variance >= hist[c].max_done
            /\ Pending(c, "on_recovery_metrics") \cup Finished(c, "on_recovery_metrics") = {}
                   => ctx[c].max_rtt_variance = hist[c].max_done)
    /\ [][\A c \in DOMAIN ctx :
            ctx'[c].max_rtt_variance >= ctx[c].max_rtt_variance]_vars

\* C6 (step): no step takes one of the four counters of a context below the
\* value it held.
C6_CountersStep ==
    \A c \in DOMAIN ctx :
        /\ c \in DOMAIN ctx'
        /\ ctx'[c].ack_tx >= ctx[c].ack_tx
        /\ ctx'[c].ack_rx >= ctx[c].ack_rx
        /\ ctx'[c].packet_lost >= ctx[c].packet_lost
        /\ ctx'[c].mtu_packet_lost >= ctx[c].mtu_packet_lost

C7_HooksTotal == \A t \in Threads : pc[t] # "panicked"

\* C8: no hook waits on a lock: a thread inside a hook body can always take
\* its next step, whatever the other threads do or fail to do.
C8_NoHookWaits ==
    \A t \in Threads :
        pc[t] \in EventHooks \cup {"on_connection_closed", "println_locked"}
            => ENABLED HookStep(t)

\* C9: the state on_connection_closed sees is ack_tx = on_frame_sent calls
\* with Ack, ack_rx = on_frame_received calls with Ack, packet_lost =
\* non-probe losses, mtu_packet_lost = probe losses, max_rtt_variance =
\* the largest sample in milliseconds (0 if none).
C9_FinalState ==
    \A t \in Threads :
        hook[t] = "on_connection_closed"
            => ctx[conn[t]] =
                   [ack_tx |-> hist[conn[t]].sent_ack,
                    ack_rx |-> hist[conn[t]].recv_ack,
                    packet_lost |-> hist[conn[t]].lost,
                    mtu_packet_lost |-> hist[conn[t]].probe_lost,
                    max_rtt_variance |-> hist[conn[t]].max_called]

\* C10 (step): the effect of the body of on_frame_sent and of
\* on_frame_received on the contexts.
C10_FrameStep ==
    \A t \in Threads :
        /\ (pc[t] = "on_frame_sent" /\ pc'[t] = "return")
               => ctx' = IF event[t].frame = "Ack"
                           THEN [ctx EXCEPT ![conn[t]].ack_tx = @ + 1]
                           ELSE ctx
        /\ (pc[t] = "on_frame_received" /\ pc'[t] = "return")
               => ctx' = IF event[t].frame = "Ack"
                           THEN [ctx EXCEPT ![conn[t]].ack_rx = @ + 1]
                           ELSE ctx

\* C10: on_frame_sent and on_frame_received with a frame other than Ack
\* leave all five fields unchanged; with an Ack frame on_frame_sent adds one
\* to ack_tx only and on_frame_received adds one to ack_rx only.
C10_FrameEffect == [][C10_FrameStep]_vars

\* C10 witness: on_frame_sent has run with a Ping frame and on_frame_received
\* with an Ack frame on one connection: ack_tx is 0 and ack_rx is 1.
C10_Witness ==
    \E c \in DOMAIN ctx, t, u \in Threads :
        /\ t \in Finished(c, "on_frame_sent") /\ event[t].frame = "Ping"
        /\ u \in Finished(c, "on_frame_received") /\ event[u].frame = "Ack"
        /\ hist[c].sent_ack = 0
        /\ ctx[c].ack_tx = 0
        /\ ctx[c].ack_rx = 1

\* The fields of a context.
Fields == DOMAIN AckContext

\* C11: a hook run with the context of one connection leaves the context of
\* every other connection unchanged: a context changes only in a step that is
\* the body of an event hook called for its own connection.
C11_OwnContextOnly ==
    [][\A c \in DOMAIN ctx :
          ctx'[c] # ctx[c]
              => \E t \in Threads :
                     /\ conn[t] = c
                     /\ pc[t] \in EventHooks
                     /\ pc'[t] = "return"]_vars

\* C11 witness: the two threads have run hooks of different connections at
\* once, and each context holds only its own connection's event.
C11_Witness ==
    /\ DOMAIN ctx = Conns
    /\ Finished(1, "on_frame_received") # {}
    /\ Finished(2, "on_packet_lost") # {}
    /\ ctx[1] = [AckContext EXCEPT !.ack_rx = 1]
    /\ ctx[2] = [AckContext EXCEPT !.packet_lost = 1]

\* C13 (step): the two steps of on_connection_closed leave every context
\* unchanged.
C13_ClosedStep ==
    \A t \in Threads :
        (pc[t] \in {"on_connection_closed", "println_locked"} /\ pc'[t] # pc[t])
            => ctx' = ctx

\* C13 (state): the values on_connection_closed wrote for a connection are
\* the values of its context, and its four counters are the numbers of the
\* events delivered for the connection.
C13_PrintedIsFinal ==
    \A c \in DOMAIN printed :
        /\ printed[c] = ctx[c]
        /\ printed[c].ack_tx = hist[c].sent_ack
        /\ printed[c].ack_rx = hist[c].recv_ack
        /\ printed[c].packet_lost = hist[c].lost
        /\ printed[c].mtu_packet_lost = hist[c].probe_lost

\* C13: on_connection_closed only reads the context, and what it emits are
\* the final accumulated values of the connection.
C13_ClosedOnlyReads == []C13_PrintedIsFinal /\ [][C13_ClosedStep]_vars

\* C13 witness: a connection with a sent Ack, a probe loss and a sample of
\* 15 ms was closed and its values were written.
C13_Witness ==
    \E c \in DOMAIN printed :
        /\ status[c] = "Closed"
        /\ printed[c] =
               [AckContext EXCEPT !.ack_tx = 1, !.mtu_packet_lost = 1,
                                  !.max_rtt_variance = 15]

\* The fields the body of hook h may change, given its event.
Designated(h, e) ==
    CASE h = "on_frame_sent" -> {"ack_tx"}
      [] h = "on_frame_received" -> {"ack_rx"}
      [] h = "on_packet_lost" ->
             IF e.is_mtu_probe THEN {"mtu_packet_lost"} ELSE {"packet_lost"}
      [] h = "on_recovery_metrics" -> {"max_rtt_variance"}

\* C15: the body of an event hook changes at most the one field designated
\* for its event and leaves the other four fields unchanged.
C15_OneFieldPerHook ==
    [][\A t \in Threads :
          (pc[t] \in EventHooks /\ pc'[t] = "return")
              => \A c \in DOMAIN ctx :
                     \A f \in Fields \ Designated(pc[t], event[t]) :
                         ctx'[c][f] = ctx[c][f]]_vars

\* C15 witness: on_recovery_metrics has raised the gauge of a context that
\* held a loss and a received Ack, and both are still there.
C15_Witness ==
    \E c \in DOMAIN ctx :
        /\ Finished(c, "on_recovery_metrics") # {}
        /\ ctx[c] =
               [AckContext EXCEPT !.ack_rx = 1, !.packet_lost = 1,
                                  !.max_rtt_variance = 9]

\* The samples of the on_recovery_metrics calls now in flight.
SamplesInFlight ==
    { event[t].rtt_variance : t \in { u \in Threads : hook[u] = "on_recovery_metrics" } }

\* C16: the conversion of a sample to the stored value is order-preserving
\* (d1 <= d2 implies that the value recorded for d1 is <= the one recorded
\* for d2), so the gauge holds the millisecond value of the largest duration
\* observed.
C16_NarrowingOrderPreserving ==
    /\ \A d1, d2 \in SamplesInFlight :
           as_millis(d1) <= as_millis(d2)
               => as_u64(as_millis(d1)) <= as_u64(as_millis(d2))
    /\ \A c \in DOMAIN ctx :
           Pending(c, "on_recovery_metrics") = {}
               => ctx[c].max_rtt_variance = as_u64(hist[c].max_called)

\* C12 (step): the step of Provider::start creates no context and changes
\* no state of any connection or thread.
C12_StartStep ==
    start_result' # start_result
        => /\ start_result' = "Ok"
           /\ UNCHANGED <<ctx, status, pc, conn, hook, event, printed, hist>>

\* C12: Provider::start always returns a Subscriber, never a failure, and
\* creates no context and changes no connection state.
C12_StartInfallible == [](start_result # "Err") /\ [][C12_StartStep]_vars

\* C12 witness: start has returned the Subscriber and no context exists yet.
C12_Witness == start_result = "Ok" /\ ctx = << >>

\* The four counters of a context.
Counters == {"ack_tx", "ack_rx", "packet_lost", "mtu_packet_lost"}

\* C17: a counter increment raises the counter by exactly one for every
\* value the counter can hold, its largest value included: no step takes a
\* counter to a smaller value (no wrap-around).
C17_IncrementNeverWraps ==
    [][\A c \in DOMAIN ctx : \A f \in Counters :
          ctx'[c][f] # ctx[c][f] => ctx'[c][f] = ctx[c][f] + 1]_vars

\* ------------------------------------------------- target loader: the data

\* url::Url by its parts: scheme, host, the directories of the path, the
\* last path segment as stem and extensions, and the query (as the pieces
\* of its text; empty when the URL has none).
Url(scheme, host, dir, stem, exts, query) ==
    [scheme |-> scheme, host |-> host, dir |-> dir, stem |-> stem,
     exts |-> exts, query |-> query]

\* PathBuf by its parts: directories, file stem, extensions of the file name.
PathBuf(dir, stem, exts) == [dir |-> dir, stem |-> stem, exts |-> exts]

RfcTools == Url("https", "tools.ietf.org", <<"rfc">>, "rfc9000", <<"txt">>, << >>)

RfcEditor == Url("https", "www.rfc-editor.org", <<"rfc">>, "rfc9000", <<"html">>, << >>)

SpecHtml == Url("https", "example.com", << >>, "spec", <<"html">>, << >>)

SpecMd == Url("https", "example.com", << >>, "spec", <<"md">>, << >>)

SpecHttp == Url("http", "example.com", << >>, "spec", <<"html">>, << >>)

SpecQuery == Url("https", "example.com", << >>, "spec", <<"html">>, <<"v=2">>)

Urls == {RfcTools, RfcEditor, SpecHtml, SpecMd, SpecHttp, SpecQuery}

\* A file that exists when the loader starts, and a path with no file.
NotesPath == PathBuf(<<"docs">>, "notes", <<"md">>)

MissingPath == PathBuf(<<"docs">>, "missing", <<"md">>)

\* TargetPath::Url(url) and TargetPath::Path(path).
UrlTarget(url) == [kind |-> "Url", at |-> url]

PathTarget(path) == [kind |-> "Path", at |-> path]

Targets == { UrlTarget(u) : u \in Urls } \cup { PathTarget(NotesPath), PathTarget(MissingPath) }

\* ---------------------------------------------- target loader: the functions

\* str::trim_end_matches on the extensions: every trailing ext is removed.
RECURSIVE trim_end_matches(_, _)
trim_end_matches(exts, ext) ==
    IF exts # << >> /\ exts[Len(exts)] = ext
      THEN trim_end_matches(SubSeq(exts, 1, Len(exts) - 1), ext)
      ELSE exts

\* The text after the rewritten prefix, trimmed of ".txt" then ".html" at its
\* end and followed by ".txt".  The end of the text is the query when there
\* is one, and then nothing is trimmed and ".txt" follows the query.
rfc_txt(url) ==
    IF url.query = << >>
      THEN [url EXCEPT !.exts =
                Append(trim_end_matches(trim_end_matches(@, "txt"), "html"), "txt")]
      ELSE [url EXCEPT !.query = Append(@, ".txt")]

\* TargetPath::canonical_url: the two IETF forms are rewritten to the
\* rfc-editor text document; any other URL is kept.
canonical_url(url) ==
    IF /\ url.scheme = "https"
       /\ url.host = "tools.ietf.org"
       /\ url.dir # << >>
       /\ url.dir[1] = "rfc"
      THEN [rfc_txt(url) EXCEPT !.host = "www.rfc-editor.org"]
    ELSE IF /\ url.scheme = "https"
            /\ url.host = "www.rfc-editor.org"
            /\ url.dir # << >>
            /\ url.dir[1] = "rfc"
      THEN rfc_txt(url)
    ELSE url

\* PathBuf::set_extension: the last extension is replaced, or one is added.
set_extension(path, ext) ==
    [path EXCEPT !.exts =
         IF @ = << >> THEN <<ext>> ELSE Append(SubSeq(@, 1, Len(@) - 1), ext)]

\* TargetPath::local: <cwd>/specs/<host>/<path segments> with the extension
\* set to txt for a URL; the path itself for a path.
local(target) ==
    IF target.kind = "Url"
      THEN set_extension(
               PathBuf(<<"specs", target.at.host>> \o target.at.dir,
                       target.at.stem, target.at.exts),
               "txt")
      ELSE target.at

\* Path::exists that never finds the file.
exists_never(path) == FALSE

\* Path::exists.
exists(path) == path \in DOMAIN fs

\* A newline is pushed unless the text is empty or ends with one.
with_newline_unless_empty(contents) ==
    IF contents # << >> /\ contents[Len(contents)] # "\n"
      THEN Append(contents, "\n")
      ELSE contents

\* load, lines 98-101: a newline is pushed when the text does not end with one.
with_newline(contents) ==
    IF contents = << >> \/ contents[Len(contents)] # "\n"
      THEN Append(contents, "\n")
      ELSE contents

\* ---------------------------------------- target loader: the world it reads

\* The body the server sends for a canonical URL (one document per URL).
\* 0xFF stands for a byte sequence that is not UTF-8.
Body(url) ==
    CASE url = canonical_url(RfcTools) -> <<"r", "\n">>
      [] url = SpecHtml -> <<"h">>
      [] url = SpecMd -> <<"m", "\n">>
      [] url = SpecHttp -> << >>
      [] url = SpecQuery -> <<"0xFF">>
      [] OTHER -> <<"x">>

\* std::fs::read_to_string succeeds on a file whose bytes are UTF-8.
is_utf8(contents) == \A i \in 1 .. Len(contents) : contents[i] # "0xFF"

\* The loader starts with the notes file on disk and no cache.
TargetInit ==
    /\ fs = (NotesPath :> <<"n">>)
    /\ origin = << >>
    /\ loaded = NotLoaded
    /\ first_ok = << >>

\* ------------------------------------------------ target loader: the action

\* The call of load on target ends: Ok(text) or Err, after a request was
\* sent (fetched) or without one; again records whether an earlier load of
\* the same target had succeeded.
Ends(target, outcome, error, text, fetched) ==
    /\ loaded' = [target |-> target, outcome |-> outcome, error |-> error,
                  text |-> text, fetched |-> fetched,
                  again |-> target \in DOMAIN first_ok]
    /\ first_ok' = IF outcome = "Ok" /\ target \notin DOMAIN first_ok
                     THEN (target :> text) @@ first_ok
                     ELSE first_ok

\* std::fs::read_to_string(path), then the newline: the end of load.
ReadToString(target, files, fetched) ==
    IF local(target) \in DOMAIN files /\ is_utf8(files[local(target)])
      THEN Ends(target, "Ok", "none", with_newline(files[local(target)]), fetched)
      ELSE Ends(target, "Err", "read", << >>, fetched)

\* TargetPath::load.  For a URL whose cache file does not exist: the
\* directories are created, the canonical URL is requested and the body is
\* copied into the newly created file; each of these may fail, and load
\* returns the error at once.  Then the file is read.
load(target) ==
    /\ target \in Targets
    /\ IF target.kind = "Url" /\ ~exists(local(target))
         THEN LET path == local(target)
                  canonical == canonical_url(target.at)
              IN  \/ /\ Ends(target, "Err", "create_dir_all", << >>, FALSE)
                     /\ UNCHANGED <<fs, origin>>
                  \/ /\ Ends(target, "Err", "send", << >>, TRUE)
                     /\ UNCHANGED <<fs, origin>>
                  \/ /\ Ends(target, "Err", "status", << >>, TRUE)
                     /\ UNCHANGED <<fs, origin>>
                  \/ /\ Ends(target, "Err", "create", << >>, TRUE)
                     /\ UNCHANGED <<fs, origin>>
                  \/ \E k \in 0 .. Len(Body(canonical)) :
                        /\ fs' = (path :> SubSeq(Body(canonical), 1, k)) @@ fs
                        /\ origin' = (path :> canonical) @@ origin
                        /\ Ends(target, "Err", "copy", << >>, TRUE)
                  \/ /\ fs' = (path :> Body(canonical)) @@ fs
                     /\ origin' = (path :> canonical) @@ origin
                     /\ ReadToString(target, fs', TRUE)
         ELSE /\ ReadToString(target, fs, FALSE)
              /\ UNCHANGED <<fs, origin>>
    /\ UNCHANGED svars

NextTarget == \E target \in Targets : load(target)

InitTarget == SubscriberInit /\ TargetInit

SpecTarget == InitTarget /\ [][NextTarget]_vars

\* Type invariant of the loader's state.
TargetTypeOK ==
    /\ DOMAIN fs \subseteq { local(t) : t \in Targets }
    /\ DOMAIN origin \subseteq DOMAIN fs
    /\ loaded.outcome \in {"None", "Ok", "Err"}
    /\ DOMAIN first_ok \subseteq Targets

\* ------------------------------------------------ target loader: claims

\* C14: a URL target's content is cached and reused.  Once a load of a URL
\* target has succeeded, every later load of that target sends no request,
\* succeeds and returns the same text; and a load sends a request only when
\* the cache file did not exist before it.
C14_CacheStep ==
    LET target == loaded'.target
    IN  target.kind = "Url" =>
          /\ target \in DOMAIN first_ok =>
               /\ ~loaded'.fetched
               /\ loaded'.outcome = "Ok"
               /\ loaded'.text = first_ok[target]
          /\ loaded'.fetched => local(target) \notin DOMAIN fs

C14_CacheReused == [][C14_CacheStep]_vars

C14_Witness ==
    /\ loaded.target.kind = "Url"
    /\ loaded.again
    /\ loaded.outcome = "Ok"
    /\ ~loaded.fetched
    /\ loaded.text = first_ok[loaded.target]

\* C18: a load of a URL target that fails with a request failure, an HTTP
\* error status or a failure while copying the body leaves no file at the
\* target's local path.
C18_ErrorLeavesNoCache ==
    ( /\ loaded.target.kind = "Url"
      /\ loaded.outcome = "Err"
      /\ loaded.error \in {"send", "status", "copy"} )
        => local(loaded.target) \notin DOMAIN fs

\* C19: URL targets whose canonical fetch URLs differ have different cache
\* files (the file that caches one's document is not the other's), so the text of a successful load of a URL target is the document
\* of that target's own canonical URL.
C19_NoSharedCache ==
    /\ \A u1, u2 \in Urls :
          ( /\ canonical_url(u1) # canonical_url(u2)
            /\ local(UrlTarget(u1)) \in DOMAIN origin
            /\ origin[local(UrlTarget(u1))] = canonical_url(u1) )
              => local(UrlTarget(u1)) # local(UrlTarget(u2))
    /\ ( loaded.target.kind = "Url" /\ loaded.outcome = "Ok" )
          => /\ local(loaded.target) \in DOMAIN origin
             /\ origin[local(loaded.target)] = canonical_url(loaded.target.at)

\* C20: every successful load returns text ending in a newline: content
\* that ends in a newline is returned as it is, any other content, the
\* empty one included, is returned with exactly one newline appended.
C20_NewlineTerminated ==
    loaded.outcome = "Ok" =>
        LET contents == fs[local(loaded.target)]
            text == loaded.text
        IN  /\ text # << >>
            /\ text[Len(text)] = "\n"
            /\ IF contents # << >> /\ contents[Len(contents)] = "\n"
                 THEN text = contents
                 ELSE text = Append(contents, "\n")

C20_Witness ==
    /\ loaded.outcome = "Ok"
    /\ fs[local(loaded.target)] = << >>
    /\ loaded.text = <<"\n">>

====
